---------------------------- MODULE Spec2Model ----------------------------
(***************************************************************************)
(* sjtu::linked_hashmap<Key, T, Hash, Equal> (src/linked_hashmap.hpp).     *)
(*                                                                         *)
(* Nodes live in a heap addressed by node ids (the addresses of the C++    *)
(* Node objects); NULL is the null pointer.  Two container objects, "a"    *)
(* and "b", share that heap.  Key = T = int, Hash = std::hash<int> (the    *)
(* identity), Equal = std::equal_to<int>.                                  *)
(***************************************************************************)
EXTENDS Integers, Sequences, FiniteSets, TLC

\* ------------------------------------------------------------- bounds
MaxKey == 3          \* number of keys the client passes to the key operations
MaxVal == 2          \* number of mapped values the client inserts
MaxPrefill == 14     \* largest number of entries map a holds at the start
MinFill == 2         \* map a starts with 0..MinFill entries, or nearly full
MaxOps == 2          \* number of client calls after the start
MaxSeq == 4          \* the same, where the client only inserts, finds and erases
MaxWalk == 4         \* the same, where the client only obtains and moves positions
MaxCopy == 2         \* the same, where the client copies, clears, inserts and erases

\* ---------------------------------------------------- program constants
INITIAL_BUCKET_COUNT == 16
\* MAX_LOAD_FACTOR = 0.75 = LoadNum / LoadDen
LoadNum == 3
LoadDen == 4

NULL == 0
MapIds == {"a", "b"}
NoMap == "null"

\* Keys the client passes: 1, 17, 33, ... (they all collide in a 16-bucket table)
KeyAt(i) == 16 * (i - 1) + 1
Keys == {KeyAt(i) : i \in 1..MaxKey}
\* Keys of the entries map a starts with: the last of Keys and the ones after it
FillKey(i) == KeyAt(MaxKey) + i - 1
FillVal(i) == (i % MaxVal) + 1
Vals == 1..MaxVal
\* T() for T = int
DefaultT == 0

Hash(k) == k

\* heap: the Node objects; maps: the two container objects; it: the position
\* object the client holds; last: the client's last call and how it ended;
\* order: per container, the keys in the order of their successful inserts
\* (history); ops: the number of calls made, budget: how many are allowed
VARIABLES heap, maps, it, last, order, ops, budget
vars == <<heap, maps, it, last, order, ops, budget>>

\* ------------------------------------------------------------- nodes
\* Node(): a sentinel, data == nullptr
SentinelNode == [hasData |-> FALSE, key |-> 0, val |-> 0,
                 prev |-> NULL, next |-> NULL, hash_next |-> NULL]
\* Node(const value_type &val)
DataNode(k, v) == [hasData |-> TRUE, key |-> k, val |-> v,
                   prev |-> NULL, next |-> NULL, hash_next |-> NULL]

\* new Node: an address not in use
NewNode(h) == CHOOSE n \in 1..(Cardinality(DOMAIN h) + 1) : n \notin DOMAIN h

Alloc(h, n, rec) == [x \in DOMAIN h \cup {n} |-> IF x = n THEN rec ELSE h[x]]
\* delete node
Free(h, n) == [x \in DOMAIN h \ {n} |-> h[x]]

\* a container object that has not been constructed (or was destroyed)
NoObject == [live |-> FALSE, head |-> NULL, tail |-> NULL, buckets |-> <<>>,
             bucket_count |-> 0, element_count |-> 0]

\* iterator() / const_iterator()
DefaultIt == [node |-> NULL, map |-> NoMap]
\* iterator(Node *n, const linked_hashmap *m)
MkIt(n, m) == [node |-> n, map |-> m]

\* ------------------------------------------------------- private part
\* init_buckets(count): the fresh bucket array (buckets[i] is at index i + 1)
init_buckets(count) == [i \in 1..count |-> NULL]

\* the nodes from curr up to (not including) stop, following next
RECURSIVE Walk(_, _, _)
Walk(h, curr, stop) ==
  IF curr = stop THEN <<>> ELSE <<curr>> \o Walk(h, h[curr].next, stop)

\* the nodes of a bucket chain from curr, following hash_next
RECURSIVE Chain(_, _)
Chain(h, curr) ==
  IF curr = NULL THEN <<>> ELSE <<curr>> \o Chain(h, h[curr].hash_next)

\* the loop of rehash chaining the nodes through next, not hash_next
RECURSIVE RehashLoopViaNext(_, _, _, _, _)
RehashLoopViaNext(h, bk, curr, tail, count) ==
  IF curr = tail THEN [heap |-> h, buckets |-> bk]
  ELSE LET idx == Hash(h[curr].key) % count
       IN RehashLoopViaNext([h EXCEPT ![curr].next = bk[idx + 1]],
                            [bk EXCEPT ![idx + 1] = curr],
                            h[curr].next, tail, count)

\* the loop of rehash: re-chain every listed node into the new array
RECURSIVE RehashLoop(_, _, _, _, _)
RehashLoop(h, bk, curr, tail, count) ==
  IF curr = tail THEN [heap |-> h, buckets |-> bk]
  ELSE LET idx == Hash(h[curr].key) % count
       IN RehashLoop([h EXCEPT ![curr].hash_next = bk[idx + 1]],
                     [bk EXCEPT ![idx + 1] = curr],
                     h[curr].next, tail, count)

\* rehash(new_bucket_count) indexing the nodes by the old bucket count
rehashOldIndex(h, mp, new_bucket_count) ==
  LET r == RehashLoop(h, init_buckets(new_bucket_count), h[mp.head].next,
                      mp.tail, mp.bucket_count)
  IN [heap |-> r.heap,
      obj |-> [mp EXCEPT !.bucket_count = new_bucket_count,
                         !.buckets = r.buckets]]

\* rehash(new_bucket_count) on the object mp; yields [heap, obj]
rehash(h, mp, new_bucket_count) ==
  LET r == RehashLoop(h, init_buckets(new_bucket_count), h[mp.head].next,
                      mp.tail, new_bucket_count)
  IN [heap |-> r.heap,
      obj |-> [mp EXCEPT !.bucket_count = new_bucket_count,
                         !.buckets = r.buckets]]

\* element_count > bucket_count * MAX_LOAD_FACTOR
OverLoad(count, buckets) == count * LoadDen > buckets * LoadNum

\* check_and_rehash(); yields [heap, obj]
check_and_rehash(h, mp) ==
  IF OverLoad(mp.element_count, mp.bucket_count)
  THEN rehash(h, mp, mp.bucket_count * 2)
  ELSE [heap |-> h, obj |-> mp]

\* ChainFind looking at the first node of the chain only
ChainFindFirstOnly(h, curr, key) ==
  IF curr = NULL THEN NULL
  ELSE IF h[curr].key = key THEN curr
  ELSE NULL

\* the loop of find_node
RECURSIVE ChainFind(_, _, _)
ChainFind(h, curr, key) ==
  IF curr = NULL THEN NULL
  ELSE IF h[curr].key = key THEN curr
  ELSE ChainFind(h, h[curr].hash_next, key)

\* find_node(key)
find_node(h, mp, key) ==
  ChainFind(h, mp.buckets[(Hash(key) % mp.bucket_count) + 1], key)

\* ---------------------------------------------------------- public part
\* linked_hashmap(): yields [heap, obj]
Construct(h, count) ==
  LET hd == NewNode(h)
      h1 == Alloc(h, hd, SentinelNode)
      tl == NewNode(h1)
      h2 == Alloc(h1, tl, SentinelNode)
      h3 == [h2 EXCEPT ![hd].next = tl, ![tl].prev = hd]
  IN [heap |-> h3,
      obj |-> [live |-> TRUE, head |-> hd, tail |-> tl,
               buckets |-> init_buckets(count),
               bucket_count |-> count, element_count |-> 0]]

\* InsertNew linking the new node in after head instead of before tail
InsertNewFront(h, mp, key, val) ==
  LET c == check_and_rehash(h, mp)
      m1 == c.obj
      n == NewNode(c.heap)
      first_node == c.heap[m1.head].next
      idx == Hash(key) % m1.bucket_count
      h1 == Alloc(c.heap, n,
                  [DataNode(key, val) EXCEPT !.prev = m1.head,
                                             !.next = first_node,
                                             !.hash_next = m1.buckets[idx + 1]])
      h2 == [h1 EXCEPT ![first_node].prev = n, ![m1.head].next = n]
  IN [heap |-> h2,
      obj |-> [m1 EXCEPT !.buckets[idx + 1] = n,
                         !.element_count = m1.element_count + 1],
      node |-> n, flag |-> TRUE]

\* InsertNew leaving the new node out of its bucket chain
InsertNewNoBucket(h, mp, key, val) ==
  LET c == check_and_rehash(h, mp)
      m1 == c.obj
      n == NewNode(c.heap)
      last_node == c.heap[m1.tail].prev
      h1 == Alloc(c.heap, n,
                  [DataNode(key, val) EXCEPT !.prev = last_node,
                                             !.next = m1.tail])
      h2 == [h1 EXCEPT ![last_node].next = n, ![m1.tail].prev = n]
  IN [heap |-> h2,
      obj |-> [m1 EXCEPT !.element_count = m1.element_count + 1],
      node |-> n, flag |-> TRUE]

\* the part of insert after the lookup failed: link the new node in
InsertNew(h, mp, key, val) ==
  LET c == check_and_rehash(h, mp)
      m1 == c.obj
      n == NewNode(c.heap)
      last_node == c.heap[m1.tail].prev
      idx == Hash(key) % m1.bucket_count
      h1 == Alloc(c.heap, n,
                  [DataNode(key, val) EXCEPT !.prev = last_node,
                                             !.next = m1.tail,
                                             !.hash_next = m1.buckets[idx + 1]])
      h2 == [h1 EXCEPT ![last_node].next = n, ![m1.tail].prev = n]
  IN [heap |-> h2,
      obj |-> [m1 EXCEPT !.buckets[idx + 1] = n,
                         !.element_count = m1.element_count + 1],
      node |-> n, flag |-> TRUE]

\* insert storing the new value when the key is present
insertOverwrite(h, mp, key, val) ==
  LET existing == find_node(h, mp, key)
  IN IF existing # NULL
     THEN [heap |-> [h EXCEPT ![existing].val = val], obj |-> mp,
           node |-> existing, flag |-> FALSE]
     ELSE InsertNew(h, mp, key, val)

\* insert(value) on the object mp; yields [heap, obj, node, flag]
insert(h, mp, key, val) ==
  LET existing == find_node(h, mp, key)
  IN IF existing # NULL
     THEN [heap |-> h, obj |-> mp, node |-> existing, flag |-> FALSE]
     ELSE InsertNew(h, mp, key, val)

\* the bucket-chain loop of erase: unlink node from the chain that starts
\* at *curr_ptr; yields [heap, first] (first: the new start of that chain)
RECURSIVE ChainRemove(_, _, _)
ChainRemove(h, first, node) ==
  IF first = NULL THEN [heap |-> h, first |-> first]
  ELSE IF first = node THEN [heap |-> h, first |-> h[node].hash_next]
  ELSE LET r == ChainRemove(h, h[first].hash_next, node)
       IN [heap |-> [r.heap EXCEPT ![first].hash_next = r.first],
           first |-> first]

\* the guard of erase without the test for tail
EraseThrowsNoTail(mp, m, pos) ==
  pos.map # m \/ pos.node = mp.head

\* the guard of erase
EraseThrows(mp, m, pos) ==
  pos.map # m \/ pos.node = mp.tail \/ pos.node = mp.head

\* erase(pos) forgetting node->next->prev = node->prev
eraseNoBackLink(h, mp, m, pos) ==
  IF EraseThrows(mp, m, pos)
  THEN [heap |-> h, obj |-> mp, exc |-> "invalid_iterator"]
  ELSE LET node == pos.node
           h2 == [h EXCEPT ![h[node].prev].next = h[node].next]
           idx == Hash(h2[node].key) % mp.bucket_count
           r == ChainRemove(h2, mp.buckets[idx + 1], node)
       IN [heap |-> Free(r.heap, node),
           obj |-> [mp EXCEPT !.buckets[idx + 1] = r.first,
                              !.element_count = mp.element_count - 1],
           exc |-> "none"]

\* erase(pos) forgetting --element_count
eraseKeepCount(h, mp, m, pos) ==
  IF EraseThrows(mp, m, pos)
  THEN [heap |-> h, obj |-> mp, exc |-> "invalid_iterator"]
  ELSE LET node == pos.node
           h1 == [h EXCEPT ![h[node].prev].next = h[node].next]
           h2 == [h1 EXCEPT ![h1[node].next].prev = h1[node].prev]
           idx == Hash(h2[node].key) % mp.bucket_count
           r == ChainRemove(h2, mp.buckets[idx + 1], node)
       IN [heap |-> Free(r.heap, node),
           obj |-> [mp EXCEPT !.buckets[idx + 1] = r.first],
           exc |-> "none"]

\* erase(pos) on the object mp, named m; yields [heap, obj, exc]
erase(h, mp, m, pos) ==
  IF EraseThrows(mp, m, pos)
  THEN [heap |-> h, obj |-> mp, exc |-> "invalid_iterator"]
  ELSE LET node == pos.node
           h1 == [h EXCEPT ![h[node].prev].next = h[node].next]
           h2 == [h1 EXCEPT ![h1[node].next].prev = h1[node].prev]
           idx == Hash(h2[node].key) % mp.bucket_count
           r == ChainRemove(h2, mp.buckets[idx + 1], node)
       IN [heap |-> Free(r.heap, node),
           obj |-> [mp EXCEPT !.buckets[idx + 1] = r.first,
                              !.element_count = mp.element_count - 1],
           exc |-> "none"]

\* the delete loop of clear
RECURSIVE ClearLoop(_, _, _)
ClearLoop(h, curr, tail) ==
  IF curr = tail THEN h
  ELSE LET next == h[curr].next IN ClearLoop(Free(h, curr), next, tail)

\* clear() going back to the initial bucket array
clearShrinking(h, mp) ==
  LET h1 == ClearLoop(h, h[mp.head].next, mp.tail)
  IN [heap |-> [h1 EXCEPT ![mp.head].next = mp.tail, ![mp.tail].prev = mp.head],
      obj |-> [mp EXCEPT !.element_count = 0,
                         !.bucket_count = INITIAL_BUCKET_COUNT,
                         !.buckets = init_buckets(INITIAL_BUCKET_COUNT)]]

\* clear() leaving the bucket array as it was
clearKeepBuckets(h, mp) ==
  LET h1 == ClearLoop(h, h[mp.head].next, mp.tail)
  IN [heap |-> [h1 EXCEPT ![mp.head].next = mp.tail, ![mp.tail].prev = mp.head],
      obj |-> [mp EXCEPT !.element_count = 0]]

\* clear(); yields [heap, obj]
clear(h, mp) ==
  LET h1 == ClearLoop(h, h[mp.head].next, mp.tail)
  IN [heap |-> [h1 EXCEPT ![mp.head].next = mp.tail, ![mp.tail].prev = mp.head],
      obj |-> [mp EXCEPT !.element_count = 0,
                         !.buckets = [i \in 1..mp.bucket_count |-> NULL]]]

\* the loop shared by the copy constructor and operator=: insert the entries
\* of the other object, from curr to other.tail, into mp
RECURSIVE CopyLoop(_, _, _, _)
CopyLoop(h, mp, curr, otail) ==
  IF curr = otail THEN [heap |-> h, obj |-> mp]
  ELSE LET r == insert(h, mp, h[curr].key, h[curr].val)
       IN CopyLoop(r.heap, r.obj, r.heap[curr].next, otail)

\* the copy constructor copying the members (sharing the nodes)
CopyConstructShallow(h, other) == [heap |-> h, obj |-> other]

\* linked_hashmap(const linked_hashmap &other); yields [heap, obj]
CopyConstruct(h, other) ==
  LET c == Construct(h, other.bucket_count)
  IN CopyLoop(c.heap, c.obj, c.heap[other.head].next, other.tail)

\* operator= without the clear()
CopyAssignNoClear(h, mp, other) ==
  CopyLoop(h, mp, h[other.head].next, other.tail)

\* operator=(other) with this != &other; yields [heap, obj]
CopyAssign(h, mp, other) ==
  LET c == clear(h, mp)
  IN CopyLoop(c.heap, c.obj, c.heap[other.head].next, other.tail)

\* ~linked_hashmap(): the heap without the object's nodes
Destroy(h, mp) ==
  LET c == clear(h, mp) IN Free(Free(c.heap, mp.head), mp.tail)

\* at(key), both overloads; yields [heap, obj, exc, node] (node: the one whose
\* value is returned)
at(h, mp, key) ==
  LET node == find_node(h, mp, key)
  IN IF node = NULL
     THEN [heap |-> h, obj |-> mp, exc |-> "index_out_of_bound", node |-> NULL]
     ELSE [heap |-> h, obj |-> mp, exc |-> "none", node |-> node]

\* operator[](key) storing a fresh T() in the entry it finds
indexResetting(h, mp, key) ==
  LET node == find_node(h, mp, key)
  IN IF node # NULL
     THEN [heap |-> [h EXCEPT ![node].val = DefaultT], obj |-> mp, node |-> node]
     ELSE LET r == insert(h, mp, key, DefaultT)
          IN [heap |-> r.heap, obj |-> r.obj, node |-> r.node]

\* operator[](key); yields [heap, obj, node] (node: the one whose value is returned)
index(h, mp, key) ==
  LET node == find_node(h, mp, key)
  IN IF node # NULL THEN [heap |-> h, obj |-> mp, node |-> node]
     ELSE LET r == insert(h, mp, key, DefaultT)
          IN [heap |-> r.heap, obj |-> r.obj, node |-> r.node]

\* operator[](key) const doing what the mutable operator[] does
index_constInserting(h, mp, key) ==
  LET r == index(h, mp, key)
  IN [heap |-> r.heap, obj |-> r.obj, exc |-> "none", node |-> r.node]

\* operator[](key) const
index_const(h, mp, key) == at(h, mp, key)

\* begin() / cbegin()
begin(h, mp, m) == MkIt(h[mp.head].next, m)
\* end() / cend()
end(mp, m) == MkIt(mp.tail, m)
\* empty()
empty(mp) == mp.element_count = 0
\* size()
size(mp) == mp.element_count
\* count(key)
count(h, mp, key) == IF find_node(h, mp, key) # NULL THEN 1 ELSE 0
\* find(key), both overloads
find(h, mp, m, key) ==
  LET node == find_node(h, mp, key)
  IN IF node # NULL THEN MkIt(node, m) ELSE end(mp, m)

\* ------------------------------------------------------------ positions
\* IncThrows without the test for tail
IncThrowsNullOnly(mps, pos) == pos.node = NULL

\* the guard of operator++ (all four overloads)
IncThrows(mps, pos) == pos.node = NULL \/ pos.node = mps[pos.map].tail

\* DecThrows testing the node itself, not its predecessor, against head
DecThrowsNodeIsHead(h, mps, pos) ==
  pos.node = NULL \/ pos.node = mps[pos.map].head

\* DecThrows without the test for head
DecThrowsNullOnly(h, mps, pos) == pos.node = NULL

\* the guard of operator-- (all four overloads)
DecThrows(h, mps, pos) ==
  pos.node = NULL \/ h[pos.node].prev = mps[pos.map].head

\* operator++(): [exc, it (the position object afterwards), ret]
inc_prefix(h, mps, pos) ==
  IF IncThrows(mps, pos)
  THEN [exc |-> "invalid_iterator", it |-> pos, ret |-> DefaultIt]
  ELSE LET moved == MkIt(h[pos.node].next, pos.map)
       IN [exc |-> "none", it |-> moved, ret |-> moved]

\* operator++(int)
inc_postfix(h, mps, pos) ==
  IF IncThrows(mps, pos)
  THEN [exc |-> "invalid_iterator", it |-> pos, ret |-> DefaultIt]
  ELSE LET temp == pos
       IN [exc |-> "none", it |-> MkIt(h[pos.node].next, pos.map), ret |-> temp]

\* operator--()
dec_prefix(h, mps, pos) ==
  IF DecThrows(h, mps, pos)
  THEN [exc |-> "invalid_iterator", it |-> pos, ret |-> DefaultIt]
  ELSE LET moved == MkIt(h[pos.node].prev, pos.map)
       IN [exc |-> "none", it |-> moved, ret |-> moved]

\* operator--(int)
dec_postfix(h, mps, pos) ==
  IF DecThrows(h, mps, pos)
  THEN [exc |-> "invalid_iterator", it |-> pos, ret |-> DefaultIt]
  ELSE LET temp == pos
       IN [exc |-> "none", it |-> MkIt(h[pos.node].prev, pos.map), ret |-> temp]

\* operator== comparing the containers only
it_equalMapOnly(lhs, rhs) == lhs.map = rhs.map

\* operator==(rhs), all four overloads
it_equal(lhs, rhs) == lhs.node = rhs.node /\ lhs.map = rhs.map

\* ------------------------------------------------------------- the client
Live == {m \in MapIds : maps[m].live}

\* the entry nodes of an object, first to last
ListNodes(h, mp) == Walk(h, h[mp.head].next, mp.tail)
NodeSet(h, mp) ==
  LET nodes == ListNodes(h, mp) IN {nodes[i] : i \in 1..Len(nodes)}

\* the position the client holds, unless its node was destroyed
Keep(pos, freed) == IF pos.node \in freed THEN DefaultIt ELSE pos

\* the sequence s without the key k
Without(s, k) == SelectSeq(s, LAMBDA x : x # k)

Did(op, m, exc, flag) == [op |-> op, m |-> m, exc |-> exc, flag |-> flag]

Step == ops < budget /\ ops' = ops + 1 /\ budget' = budget

\* map a after the client inserted FillKey(1) .. FillKey(n) into it
RECURSIVE Prefill(_, _, _, _)
Prefill(h, mp, i, n) ==
  IF i > n THEN [heap |-> h, obj |-> mp]
  ELSE LET r == insert(h, mp, FillKey(i), FillVal(i))
       IN Prefill(r.heap, r.obj, i + 1, n)

EmptyHeap == [x \in {} |-> SentinelNode]

\* the numbers of entries map a starts with: few, or so many that the next
\* inserts reach the load factor
PrefillSizes ==
  {n \in 0..MaxPrefill :
     n <= MinFill \/ (n + 1) * LoadDen >= INITIAL_BUCKET_COUNT * LoadNum}

InitWith(calls) ==
  \E n \in PrefillSizes :
    LET c == Construct(EmptyHeap, INITIAL_BUCKET_COUNT)
        r == Prefill(c.heap, c.obj, 1, n)
    IN /\ heap = r.heap
       /\ maps = [m \in MapIds |-> IF m = "a" THEN r.obj ELSE NoObject]
       /\ it = DefaultIt
       /\ last = Did("init", "a", "none", FALSE)
       /\ order = [m \in MapIds |-> IF m = "a" THEN [i \in 1..n |-> FillKey(i)]
                                              ELSE <<>>]
       /\ ops = 0
       /\ budget = calls

Init == InitWith(MaxOps)

\* linked_hashmap b;
DoConstruct ==
  /\ Step /\ ~maps["b"].live
  /\ LET c == Construct(heap, INITIAL_BUCKET_COUNT)
     IN heap' = c.heap /\ maps' = [maps EXCEPT !["b"] = c.obj]
  /\ it' = it
  /\ order' = [order EXCEPT !["b"] = <<>>]
  /\ last' = Did("construct", "b", "none", FALSE)

\* linked_hashmap b(a);
DoCopyConstruct ==
  /\ Step /\ ~maps["b"].live
  /\ LET c == CopyConstruct(heap, maps["a"])
     IN heap' = c.heap /\ maps' = [maps EXCEPT !["b"] = c.obj]
  /\ it' = it
  /\ order' = [order EXCEPT !["b"] = order["a"]]
  /\ last' = Did("copy_construct", "b", "none", FALSE)

\* b goes out of scope
DoDestroy ==
  /\ Step /\ maps["b"].live
  /\ heap' = Destroy(heap, maps["b"])
  /\ maps' = [maps EXCEPT !["b"] = NoObject]
  /\ it' = IF it.map = "b" THEN DefaultIt ELSE it
  /\ order' = [order EXCEPT !["b"] = <<>>]
  /\ last' = Did("destroy", "b", "none", FALSE)

\* m.insert(value_type(k, v));
DoInsert(m, k, v) ==
  /\ Step /\ m \in Live
  /\ LET r == insert(heap, maps[m], k, v)
     IN /\ heap' = r.heap /\ maps' = [maps EXCEPT ![m] = r.obj]
        /\ last' = Did("insert", m, "none", r.flag)
        /\ order' = IF r.flag THEN [order EXCEPT ![m] = Append(@, k)] ELSE order
  /\ it' = it

\* m[k];
DoIndex(m, k) ==
  /\ Step /\ m \in Live
  /\ LET r == index(heap, maps[m], k)
         grew == maps[m].element_count # r.obj.element_count
     IN /\ heap' = r.heap /\ maps' = [maps EXCEPT ![m] = r.obj]
        /\ last' = Did("index", m, "none", grew)
        /\ order' = IF grew THEN [order EXCEPT ![m] = Append(@, k)] ELSE order
  /\ it' = it

\* m.at(k) = v;
DoAtAssign(m, k, v) ==
  /\ Step /\ m \in Live
  /\ LET r == at(heap, maps[m], k)
     IN /\ heap' = IF r.exc = "none" THEN [r.heap EXCEPT ![r.node].val = v]
                                      ELSE r.heap
        /\ maps' = [maps EXCEPT ![m] = r.obj]
        /\ last' = Did("at_assign", m, r.exc, FALSE)
  /\ UNCHANGED <<it, order>>

\* m.at(k);  (both overloads)
DoAt(m, k) ==
  /\ Step /\ m \in Live
  /\ LET r == at(heap, maps[m], k)
     IN /\ heap' = r.heap /\ maps' = [maps EXCEPT ![m] = r.obj]
        /\ last' = Did("at", m, r.exc, FALSE)
  /\ UNCHANGED <<it, order>>

\* cm[k];  with const linked_hashmap &cm = m
DoIndexConst(m, k) ==
  /\ Step /\ m \in Live
  /\ LET r == index_const(heap, maps[m], k)
     IN /\ heap' = r.heap /\ maps' = [maps EXCEPT ![m] = r.obj]
        /\ last' = Did("index_const", m, r.exc, FALSE)
  /\ UNCHANGED <<it, order>>

\* it = m.find(k);
DoFind(m, k) ==
  /\ Step /\ m \in Live
  /\ it' = find(heap, maps[m], m, k)
  /\ last' = Did("find", m, "none", count(heap, maps[m], k) = 1)
  /\ UNCHANGED <<heap, maps, order>>

\* it = m.begin();
DoBegin(m) ==
  /\ Step /\ m \in Live
  /\ it' = begin(heap, maps[m], m)
  /\ last' = Did("begin", m, "none", FALSE)
  /\ UNCHANGED <<heap, maps, order>>

\* it = m.end();
DoEnd(m) ==
  /\ Step /\ m \in Live
  /\ it' = end(maps[m], m)
  /\ last' = Did("end", m, "none", FALSE)
  /\ UNCHANGED <<heap, maps, order>>

\* m.erase(it);
DoErase(m) ==
  /\ Step /\ m \in Live
  /\ LET r == erase(heap, maps[m], m, it)
     IN /\ heap' = r.heap /\ maps' = [maps EXCEPT ![m] = r.obj]
        /\ it' = IF r.exc = "none" THEN DefaultIt ELSE it
        /\ order' = IF r.exc = "none"
                     THEN [order EXCEPT ![m] = Without(@, heap[it.node].key)]
                     ELSE order
        /\ last' = Did("erase", m, r.exc, FALSE)

\* m.clear();
DoClear(m) ==
  /\ Step /\ m \in Live
  /\ LET r == clear(heap, maps[m])
     IN heap' = r.heap /\ maps' = [maps EXCEPT ![m] = r.obj]
  /\ it' = Keep(it, NodeSet(heap, maps[m]))
  /\ order' = [order EXCEPT ![m] = <<>>]
  /\ last' = Did("clear", m, "none", FALSE)

\* m = o;
DoAssign(m, o) ==
  /\ Step /\ m \in Live /\ o \in Live
  /\ IF m = o
     THEN UNCHANGED <<heap, maps, it, order>>
     ELSE /\ LET r == CopyAssign(heap, maps[m], maps[o])
             IN heap' = r.heap /\ maps' = [maps EXCEPT ![m] = r.obj]
          /\ it' = Keep(it, NodeSet(heap, maps[m]))
          /\ order' = [order EXCEPT ![m] = order[o]]
  /\ last' = Did("assign", m, "none", m = o)

\* ++it;  it++;
DoInc(postfix) ==
  /\ Step
  /\ LET r == IF postfix THEN inc_postfix(heap, maps, it)
                         ELSE inc_prefix(heap, maps, it)
     IN it' = r.it /\ last' = Did("inc", it.map, r.exc, postfix)
  /\ UNCHANGED <<heap, maps, order>>

\* --it;  it--;
DoDec(postfix) ==
  /\ Step
  /\ LET r == IF postfix THEN dec_postfix(heap, maps, it)
                         ELSE dec_prefix(heap, maps, it)
     IN it' = r.it /\ last' = Did("dec", it.map, r.exc, postfix)
  /\ UNCHANGED <<heap, maps, order>>

Next ==
  \/ DoConstruct
  \/ DoCopyConstruct
  \/ DoDestroy
  \/ \E m \in MapIds, k \in Keys, v \in Vals : DoInsert(m, k, v)
  \/ \E m \in MapIds, k \in Keys : DoIndex(m, k)
  \/ \E m \in MapIds, k \in Keys, v \in Vals : DoAtAssign(m, k, v)
  \/ \E m \in MapIds, k \in Keys : DoAt(m, k)
  \/ \E m \in MapIds, k \in Keys : DoIndexConst(m, k)
  \/ \E m \in MapIds, k \in Keys : DoFind(m, k)
  \/ \E m \in MapIds : DoBegin(m)
  \/ \E m \in MapIds : DoEnd(m)
  \/ \E m \in MapIds : DoErase(m)
  \/ \E m \in MapIds : DoClear(m)
  \/ \E m \in MapIds, o \in MapIds : DoAssign(m, o)
  \/ \E postfix \in BOOLEAN : DoInc(postfix)
  \/ \E postfix \in BOOLEAN : DoDec(postfix)

\* it = m.insert(value_type(k, v)).first;
DoInsertIt(m, k, v) ==
  /\ Step /\ m \in Live
  /\ LET r == insert(heap, maps[m], k, v)
     IN /\ heap' = r.heap /\ maps' = [maps EXCEPT ![m] = r.obj]
        /\ it' = MkIt(r.node, m)
        /\ last' = Did("insert", m, "none", r.flag)
        /\ order' = IF r.flag THEN [order EXCEPT ![m] = Append(@, k)] ELSE order

Spec == Init /\ [][Next]_vars

\* a client that only inserts, looks up and erases, for longer
InitSeq == InitWith(MaxSeq)
NextSeq ==
  \/ \E m \in MapIds, k \in Keys, v \in Vals : DoInsert(m, k, v)
  \/ \E m \in MapIds, k \in Keys : DoFind(m, k)
  \/ \E m \in MapIds : DoBegin(m)
  \/ \E m \in MapIds : DoErase(m)

SpecSeq == InitSeq /\ [][NextSeq]_vars

\* a client that only obtains positions and moves them
InitWalk == InitWith(MaxWalk)
NextWalk ==
  \/ \E m \in MapIds, k \in Keys, v \in Vals : DoInsertIt(m, k, v)
  \/ \E m \in MapIds, k \in Keys : DoFind(m, k)
  \/ \E m \in MapIds : DoBegin(m)
  \/ \E m \in MapIds : DoEnd(m)
  \/ \E postfix \in BOOLEAN : DoInc(postfix)
  \/ \E postfix \in BOOLEAN : DoDec(postfix)

SpecWalk == InitWalk /\ [][NextWalk]_vars

\* a client that constructs, copies, assigns, clears and destroys maps and
\* inserts and erases entries
InitCopy == InitWith(MaxCopy)
NextCopy ==
  \/ DoConstruct
  \/ DoCopyConstruct
  \/ DoDestroy
  \/ \E m \in MapIds, o \in MapIds : DoAssign(m, o)
  \/ \E m \in MapIds : DoClear(m)
  \/ \E m \in MapIds, k \in Keys, v \in Vals : DoInsert(m, k, v)
  \/ \E m \in MapIds : DoBegin(m)
  \/ \E m \in MapIds : DoErase(m)

SpecCopy == InitCopy /\ [][NextCopy]_vars

\* ---------------------------------------------------------- observations
\* what iterating from begin() to end() yields
Entries(h, mp) ==
  LET nodes == ListNodes(h, mp)
  IN [i \in 1..Len(nodes) |-> <<h[nodes[i]].key, h[nodes[i]].val>>]
KeySeq(h, mp) ==
  LET nodes == ListNodes(h, mp)
  IN [i \in 1..Len(nodes) |-> h[nodes[i]].key]
Range(s) == {s[i] : i \in 1..Len(s)}
\* the keys of a sequence of (key, value) pairs
KeysOf(es) == {es[i][1] : i \in 1..Len(es)}
\* the value a sequence of (key, value) pairs shows for key k
ValueIn(es, k) == es[CHOOSE j \in 1..Len(es) : es[j][1] = k][2]
\* the keys the operations are tried with: the client's and two more of a's
AllKeys == Keys \cup {FillKey(2), FillKey(MaxPrefill)}

\* ------------------------------------------------------------------ C1
\* C1: in every reachable state, iterating a container from begin() to
\* end() yields exactly the surviving keys in the order of their first
\* successful insert (the history `order`); in particular an insert of a
\* present key leaves every position as it was.
C1_InsertionOrder ==
  \A m \in Live : KeySeq(heap, maps[m]) = order[m]

\* an entry was erased from the front of a and then a new key was inserted
C1_Witness ==
  /\ last.op = "insert" /\ last.flag /\ last.m = "a"
  /\ Len(order["a"]) >= 3
  /\ order["a"][1] # FillKey(1)

\* ------------------------------------------------------------------ C2
\* C2: immediately after the insertion of a new key (insert, operator[],
\* copy construction, copy assignment), size() <= bucket_count * 0.75.
C2_LoadFactorBound ==
  \A m \in Live :
    (/\ last.m = m
     /\ \/ last.op \in {"insert", "index"} /\ last.flag
        \/ last.op = "copy_construct"
        \/ last.op = "assign" /\ ~last.flag)
    => size(maps[m]) * LoadDen <= maps[m].bucket_count * LoadNum

\* ------------------------------------------------------------------ C3
\* C3: insert of a present key changes neither size(), nor the iteration
\* sequence of (key, value) pairs, nor the stored value, nor the bucket
\* count, and returns the position of the existing entry with the flag
\* false; insert of an absent key returns the position of the new entry,
\* which is the last one iterated, with the flag true, and size() grows by
\* one.
C3_InsertEffect ==
  \A m \in Live :
    LET mp == maps[m]
        before == Entries(heap, mp)
        nodes == ListNodes(heap, mp)
    IN \A k \in AllKeys, v \in Vals :
         LET r == insert(heap, mp, k, v)
             pos == MkIt(r.node, m)
             after == Entries(r.heap, r.obj)
         IN IF k \in KeysOf(before)
            THEN /\ ~r.flag
                 /\ size(r.obj) = size(mp)
                 /\ after = before
                 /\ r.obj.bucket_count = mp.bucket_count
                 /\ pos.node \in Range(nodes)
                 /\ r.heap[pos.node].key = k
                 /\ r.heap[pos.node].val = ValueIn(before, k)
            ELSE /\ r.flag
                 /\ size(r.obj) = size(mp) + 1
                 /\ after = Append(before, <<k, v>>)
                 /\ pos.node = ListNodes(r.heap, r.obj)[size(r.obj)]
                 /\ pos.node \notin Range(nodes)

\* the client inserted a key that was present, into a map of several entries
C3_Witness ==
  /\ last.op = "insert" /\ ~last.flag
  /\ size(maps[last.m]) >= 2

\* ------------------------------------------------------------------ C4
\* C4: no two live entries of a container have equal keys.
C4_UniqueKeys ==
  \A m \in Live :
    LET ks == KeySeq(heap, maps[m])
    IN \A i, j \in 1..Len(ks) : ks[i] = ks[j] => i = j

\* a present key was inserted again into a table that has been rehashed
C4_Witness ==
  /\ last.op \in {"insert", "index"} /\ ~last.flag
  /\ maps[last.m].bucket_count > INITIAL_BUCKET_COUNT
  /\ \E k \in Keys : k \in Range(order[last.m])

\* ------------------------------------------------------------------ C5
\* C5: for an absent key k, insert(k, v) then find(k) yields a position
\* other than end() whose value is v; erase of that position then find(k)
\* yields end() and count(k) = 0.
C5_RoundTrip ==
  \A m \in Live :
    LET present == KeysOf(Entries(heap, maps[m]))
    IN \A k \in AllKeys \ present, v \in Vals :
         LET r == insert(heap, maps[m], k, v)
             f == find(r.heap, r.obj, m, k)
             e == erase(r.heap, r.obj, m, f)
         IN /\ f # end(r.obj, m)
            /\ r.heap[f.node].key = k
            /\ r.heap[f.node].val = v
            /\ e.exc = "none"
            /\ find(e.heap, e.obj, m, k) = end(e.obj, m)
            /\ count(e.heap, e.obj, k) = 0

\* insert(k, v), it = find(k), erase(it) ran on a map that had entries: the
\* map holds its initial entries again
C5_Witness ==
  /\ last.op = "erase" /\ last.exc = "none" /\ last.m = "a"
  /\ ops = MaxSeq
  /\ Len(order["a"]) >= 1
  /\ order["a"] = [i \in 1..Len(order["a"]) |-> FillKey(i)]

C7_CopyEqualsSource ==
  \A o \in Live :
    LET src == Entries(heap, maps[o])
        cc == CopyConstruct(heap, maps[o])
    IN /\ Entries(cc.heap, cc.obj) = src
       /\ size(cc.obj) = size(maps[o])
       /\ Entries(cc.heap, maps[o]) = src
       /\ \A m \in Live \ {o} :
            LET ca == CopyAssign(heap, maps[m], maps[o])
            IN /\ Entries(ca.heap, ca.obj) = src
               /\ size(ca.obj) = size(maps[o])
               /\ Entries(ca.heap, maps[o]) = src

\* b, constructed with 16 buckets, was assigned from a, which has
\* MaxPrefill entries in more than 16 buckets
C7_Witness ==
  /\ last.op = "assign" /\ ~last.flag /\ last.m = "b"
  /\ Len(order["b"]) = MaxPrefill
  /\ maps["a"].bucket_count > INITIAL_BUCKET_COUNT

\* ------------------------------------------------------------------ C8
\* the positions erase on m must reject: the default one, m's own end() and
\* head, and every position of the other container
BadPositions(m) ==
  {DefaultIt, end(maps[m], m), MkIt(maps[m].head, m)}
  \cup UNION {{MkIt(n, o) : n \in NodeSet(heap, maps[o])
                                 \cup {maps[o].head, maps[o].tail}} :
              o \in Live \ {m}}

\* C8: erase(position) fails with invalid_iterator when the position is of
\* another container or of none, or is the tail or head sentinel of this
\* one, and then leaves size, iteration sequence, bucket chains and bucket
\* count unchanged; so does erase(end()) on an empty map.
C8_EraseRejects ==
  \A m \in Live :
    \A pos \in BadPositions(m) :
      LET r == erase(heap, maps[m], m, pos)
      IN /\ r.exc = "invalid_iterator"
         /\ r.heap = heap
         /\ r.obj = maps[m]

\* erase(end()) on an empty map failed
C8_Witness ==
  /\ last.op = "erase" /\ last.exc = "invalid_iterator"
  /\ size(maps[last.m]) = 0
  /\ it = end(maps[last.m], last.m)

\* ------------------------------------------------------------------ C9
\* C9: at(key) and the read-only operator[](key) return the value stored
\* for a present key and fail with index_out_of_bound for an absent one;
\* neither changes size, iteration sequence or bucket count, and the
\* read-only operator[] never inserts.
C9_CheckedAccess ==
  \A m \in Live :
    LET mp == maps[m]
        es == Entries(heap, mp)
    IN \A k \in AllKeys :
         LET r == at(heap, mp, k)
             c == index_const(heap, mp, k)
         IN /\ \A x \in {r, c} :
                 /\ Entries(x.heap, x.obj) = es
                 /\ size(x.obj) = size(mp)
                 /\ x.obj.bucket_count = mp.bucket_count
                 /\ IF k \in KeysOf(es)
                    THEN /\ x.exc = "none"
                         /\ x.heap[x.node].key = k
                         /\ x.heap[x.node].val = ValueIn(es, k)
                    ELSE x.exc = "index_out_of_bound"

\* the read-only operator[] failed on a map that has entries
C9_Witness ==
  /\ last.op = "index_const" /\ last.exc = "index_out_of_bound"
  /\ size(maps[last.m]) >= 1

\* ----------------------------------------------------------------- C10
\* the positions a client can hold: the default one, and for each container
\* its entries and its end()
Positions ==
  {DefaultIt}
  \cup UNION {{MkIt(n, m) : n \in NodeSet(heap, maps[m]) \cup {maps[m].tail}} :
              m \in Live}

\* where key k stands in the insertion order of container m (0: nowhere)
OrderIndex(m, k) ==
  IF k \in Range(order[m])
  THEN CHOOSE i \in 1..Len(order[m]) : order[m][i] = k
  ELSE 0

\* C10: ++ (prefix and postfix) fails with invalid_iterator exactly when the
\* position is end() or the default one, and then leaves the position as it
\* was; else it moves to the next entry in insertion order, or to end() from
\* the last entry, and postfix ++ returns the position held before.
C10_Advance ==
  \A pos \in Positions :
    LET pre == inc_prefix(heap, maps, pos)
        post == inc_postfix(heap, maps, pos)
        fails == pos = DefaultIt \/ pos = end(maps[pos.map], pos.map)
    IN /\ (pre.exc = "invalid_iterator") <=> fails
       /\ (post.exc = "invalid_iterator") <=> fails
       /\ IF fails
          THEN pre.it = pos /\ post.it = pos
          ELSE LET m == pos.map
                   i == OrderIndex(m, heap[pos.node].key)
               IN /\ pre.exc = "none" /\ post.exc = "none"
                  /\ post.it = pre.it
                  /\ pre.ret = pre.it
                  /\ post.ret = pos
                  /\ pre.it.map = m
                  /\ i >= 1
                  /\ IF i = Len(order[m])
                     THEN pre.it = end(maps[m], m)
                     ELSE /\ pre.it.node \in NodeSet(heap, maps[m])
                          /\ heap[pre.it.node].key = order[m][i + 1]

\* ++ failed on end()
C10_Witness ==
  /\ last.op = "inc" /\ last.exc = "invalid_iterator"
  /\ it.node # NULL
  /\ it = end(maps[it.map], it.map)

\* ----------------------------------------------------------------- C11
\* C11: -- (prefix and postfix) fails with invalid_iterator exactly when
\* the position is the default one or is begin() (also on an empty map,
\* where begin() is end()), and then leaves the position as it was; else it
\* moves to the previous entry in insertion order, from end() to the last
\* entry, and postfix -- returns the position held before.
C11_Retreat ==
  \A pos \in Positions :
    LET pre == dec_prefix(heap, maps, pos)
        post == dec_postfix(heap, maps, pos)
        fails == pos = DefaultIt \/ pos = begin(heap, maps[pos.map], pos.map)
    IN /\ (pre.exc = "invalid_iterator") <=> fails
       /\ (post.exc = "invalid_iterator") <=> fails
       /\ IF fails
          THEN /\ pre.it = pos /\ post.it = pos
               /\ pos = DefaultIt
                  \/ IF pos.node = maps[pos.map].tail
                     THEN Len(order[pos.map]) = 0
                     ELSE heap[pos.node].key = order[pos.map][1]
          ELSE LET m == pos.map
                   i == IF pos.node = maps[m].tail
                        THEN Len(order[m]) + 1
                        ELSE OrderIndex(m, heap[pos.node].key)
               IN /\ post.it = pre.it
                  /\ pre.ret = pre.it
                  /\ post.ret = pos
                  /\ pre.it.map = m
                  /\ i >= 2
                  /\ pre.it.node \in NodeSet(heap, maps[m])
                  /\ heap[pre.it.node].key = order[m][i - 1]

\* -- failed on begin() of an empty map
C11_Witness ==
  /\ last.op = "dec" /\ last.exc = "invalid_iterator"
  /\ it.node # NULL
  /\ size(maps[it.map]) = 0
  /\ it = begin(heap, maps[it.map], it.map)

\* ----------------------------------------------------------------- C12
\* what a position stands for to the client: nothing, the end of a
\* container, or the entry of a container with some key
Denotes(pos) ==
  IF pos = DefaultIt THEN <<"none">>
  ELSE IF pos.node = maps[pos.map].tail THEN <<"end", pos.map>>
  ELSE <<"entry", pos.map, heap[pos.node].key>>

\* the positions the operations of container m hand out
Obtained(m) ==
  {begin(heap, maps[m], m), end(maps[m], m)}
    \cup {find(heap, maps[m], m, k) : k \in AllKeys}

\* C12: two positions compare equal exactly when they stand for the same
\* entry (or the end) of the same container; positions handed out by two
\* different containers never compare equal, end() against end() and the
\* positions of a copy against those of its source included.
C12_Equality ==
  LET ps == Positions
      got == [m \in Live |-> Obtained(m)]
  IN /\ \A p \in ps :
          LET d == Denotes(p)
          IN \A q \in ps : it_equal(p, q) <=> d = Denotes(q)
     /\ \A m \in Live : got[m] \subseteq ps
     /\ \A m1, m2 \in Live :
          \A p \in got[m1], q \in got[m2] :
            /\ m1 # m2 => ~it_equal(p, q)
            /\ it_equal(p, q) <=> (p.node = q.node /\ m1 = m2)

\* the client holds begin() of a copy, which differs from begin() of the
\* source although both stand on the same key
C12_Witness ==
  /\ Live = MapIds
  /\ it.map = "b" /\ size(maps["b"]) >= 2
  /\ it = begin(heap, maps["b"], "b")
  /\ KeySeq(heap, maps["a"]) = KeySeq(heap, maps["b"])
  /\ ~it_equal(it, begin(heap, maps["a"], "a"))

\* ----------------------------------------------------------------- C13
\* C13: clear() on any map leaves size() = 0, empty() true, begin() = end(),
\* head.next = tail and tail.prev = head, every bucket empty, so that
\* find(k) = end() for every key, and the bucket count as before; the node
\* of every former entry is destroyed, and inserts after it start a fresh
\* insertion order.
C13_Clear ==
  \A m \in Live :
    LET r == clear(heap, maps[m])
        old == NodeSet(heap, maps[m])
    IN /\ size(r.obj) = 0 /\ empty(r.obj)
       /\ r.heap[r.obj.head].next = r.obj.tail
       /\ r.heap[r.obj.tail].prev = r.obj.head
       /\ r.obj.head = maps[m].head /\ r.obj.tail = maps[m].tail
       /\ r.obj.bucket_count = maps[m].bucket_count
       /\ DOMAIN r.obj.buckets = 1..r.obj.bucket_count
       /\ \A i \in 1..r.obj.bucket_count : r.obj.buckets[i] = NULL
       /\ DOMAIN r.heap = DOMAIN heap \ old
       /\ it_equal(begin(r.heap, r.obj, m), end(r.obj, m))
       /\ \A k \in AllKeys :
            /\ find(r.heap, r.obj, m, k) = end(r.obj, m)
            /\ count(r.heap, r.obj, k) = 0
       /\ Entries(r.heap, r.obj) = << >>
       /\ \A k1 \in Keys :
            LET v == MaxVal
                r1 == insert(r.heap, r.obj, k1, v)
            IN /\ r1.flag
               /\ Entries(r1.heap, r1.obj) = << <<k1, v>> >>
               /\ \A k2 \in Keys :
                    LET r2 == insert(r1.heap, r1.obj, k2, v)
                    IN /\ r2.flag <=> k1 # k2
                       /\ Entries(r2.heap, r2.obj) =
                            IF k1 = k2 THEN << <<k1, v>> >>
                            ELSE << <<k1, v>>, <<k2, v>> >>

\* clear() has emptied a map that had grown beyond its initial bucket count
C13_Witness ==
  /\ last.op = "clear" /\ last.m \in Live
  /\ maps[last.m].bucket_count > INITIAL_BUCKET_COUNT
  /\ size(maps[last.m]) = 0
  /\ order[last.m] = << >>

\* ----------------------------------------------------------------- C14
\* C14: the mutable operator[](key) on a present key changes nothing and
\* returns the value of the entry with that key; on an absent key it adds
\* (key, T()) as the last entry in iteration order, leaves the other entries
\* as they were, makes size() one larger and returns the value of the new
\* entry.
C14_Index ==
  \A m \in Live :
    LET before == Entries(heap, maps[m])
    IN \A k \in AllKeys :
         LET r == index(heap, maps[m], k)
             after == Entries(r.heap, r.obj)
         IN IF k \in KeysOf(before)
            THEN /\ r.heap = heap /\ r.obj = maps[m]
                 /\ r.node \in NodeSet(heap, maps[m])
                 /\ heap[r.node].key = k
                 /\ heap[r.node].val = ValueIn(before, k)
            ELSE /\ after = Append(before, <<k, DefaultT>>)
                 /\ size(r.obj) = size(maps[m]) + 1
                 /\ r.node = r.heap[r.obj.tail].prev
                 /\ r.node \notin DOMAIN heap
                 /\ r.heap[r.node].key = k /\ r.heap[r.node].val = DefaultT
                 /\ find(r.heap, r.obj, m, k) = MkIt(r.node, m)

\* operator[] has added an entry with the default value behind other entries
C14_Witness ==
  /\ last.op = "index" /\ last.flag /\ last.m \in Live
  /\ LET es == Entries(heap, maps[last.m])
     IN /\ Len(es) >= 2
        /\ es[Len(es)][2] = DefaultT
        /\ es[Len(es)][1] = order[last.m][Len(es)]

\* ----------------------------------------------------------------- C15
\* the sequence s without its i-th element
DropAt(s, i) == [j \in 1..(Len(s) - 1) |-> IF j < i THEN s[j] ELSE s[j + 1]]

\* C15: erase(pos) on the position of an entry of the map succeeds and
\* removes exactly that entry: size() is one less, the other entries keep
\* key, value and relative order, the bucket count is unchanged, and the
\* nodes of the other entries stay where they were, so that positions held
\* on them stand on the same entries and find() still leads to them.
C15_EraseEffect ==
  \A m \in Live :
    LET nodes == ListNodes(heap, maps[m])
        before == Entries(heap, maps[m])
    IN \A i \in 1..Len(nodes) :
         LET r == erase(heap, maps[m], m, MkIt(nodes[i], m))
         IN /\ r.exc = "none"
            /\ size(r.obj) = size(maps[m]) - 1
            /\ r.obj.bucket_count = maps[m].bucket_count
            /\ r.obj.head = maps[m].head /\ r.obj.tail = maps[m].tail
            /\ DOMAIN r.heap = DOMAIN heap \ {nodes[i]}
            /\ ListNodes(r.heap, r.obj) = DropAt(nodes, i)
            /\ Entries(r.heap, r.obj) = DropAt(before, i)
            /\ \A j \in 1..Len(nodes) :
                 j # i =>
                   /\ r.heap[nodes[j]].key = heap[nodes[j]].key
                   /\ r.heap[nodes[j]].val = heap[nodes[j]].val
                   /\ find(r.heap, r.obj, m, heap[nodes[j]].key) = MkIt(nodes[j], m)
            /\ find(r.heap, r.obj, m, heap[nodes[i]].key) = end(r.obj, m)

\* an entry between two others has been erased: its node is gone while
\* older and newer nodes are still listed
C15_Witness ==
  /\ last.op = "erase" /\ last.exc = "none" /\ last.m \in Live
  /\ LET nodes == ListNodes(heap, maps[last.m])
     IN /\ Len(nodes) >= 2
        /\ \E n \in nodes[1]..nodes[Len(nodes)] : n \notin DOMAIN heap
        /\ KeySeq(heap, maps[last.m]) = order[last.m]

\* ----------------------------------------------------------------- C16
\* C16: in every state and for every key, the hash index and the order list
\* agree: count(k) = 1, find(k) # end() and at(k) succeeding hold exactly
\* when iteration yields an entry with key k (and find and at then lead to
\* an entry with that key), count(k) = 0, find(k) = end() and at(k) failing
\* hold otherwise; size() is the number of entries iteration yields, and
\* empty() holds exactly when begin() = end().
C16_IndexAgreesWithList ==
  \A m \in Live :
    LET es == Entries(heap, maps[m])
        listed == KeysOf(es)
        e == end(maps[m], m)
    IN /\ size(maps[m]) = Len(es)
       /\ empty(maps[m]) <=> it_equal(begin(heap, maps[m], m), e)
       /\ empty(maps[m]) <=> Len(es) = 0
       /\ \A k \in AllKeys :
            LET f == find(heap, maps[m], m, k)
                a == at(heap, maps[m], k)
                c == count(heap, maps[m], k)
            IN IF k \in listed
               THEN /\ c = 1
                    /\ ~it_equal(f, e) /\ heap[f.node].key = k
                    /\ a.exc = "none" /\ a.node = f.node
               ELSE /\ c = 0
                    /\ it_equal(f, e)
                    /\ a.exc = "index_out_of_bound"

\* a key that moved to another bucket in a rehash is found and listed, and
\* an absent key is neither
C16_Witness ==
  /\ maps["a"].live
  /\ maps["a"].bucket_count > INITIAL_BUCKET_COUNT
  /\ LET listed == KeysOf(Entries(heap, maps["a"]))
     IN \E k1, k2 \in Keys :
          /\ k1 \in listed /\ k2 \notin listed
          /\ Hash(k1) % maps["a"].bucket_count # Hash(k1) % INITIAL_BUCKET_COUNT
          /\ count(heap, maps["a"], k1) = 1
          /\ count(heap, maps["a"], k2) = 0

\* ----------------------------------------------------------------- C17
\* the nodes of a bucket chain from curr, followed for at most fuel steps;
\* ends in NULL when the walk leaves the heap or the fuel runs out (a
\* dangling or cyclic chain)
RECURSIVE ChainWithin(_, _, _)
ChainWithin(h, curr, fuel) ==
  IF curr = NULL THEN <<>>
  ELSE IF fuel = 0 \/ curr \notin DOMAIN h THEN <<NULL>>
  ELSE <<curr>> \o ChainWithin(h, h[curr].hash_next, fuel - 1)

\* the sequence s holds no element twice
Distinct(s) == \A i, j \in 1..Len(s) : s[i] = s[j] => i = j

\* C17: in every state the nodes of the heap are exactly the sentinels and
\* the listed nodes of the live maps, no node belonging to two maps; every
\* listed node is listed once, with n.next.prev = n from head on, and is
\* once in the chain of bucket hash(key) mod bucket_count and in no other
\* chain; every chain ends in null without leaving the heap or repeating a
\* node and holds listed nodes only (no sentinel, no erased node).
C17_Structure ==
  /\ \A m \in Live :
       LET mp == maps[m]
           nodes == ListNodes(heap, mp)
           listed == Range(nodes)
       IN /\ mp.head \in DOMAIN heap /\ mp.tail \in DOMAIN heap
          /\ mp.head # mp.tail
          /\ ~heap[mp.head].hasData /\ ~heap[mp.tail].hasData
          /\ heap[mp.head].prev = NULL /\ heap[mp.tail].next = NULL
          /\ Len(nodes) = mp.element_count
          /\ Distinct(nodes)
          /\ listed \subseteq DOMAIN heap
          /\ \A n \in listed \cup {mp.head} : heap[heap[n].next].prev = n
          /\ \A n \in listed \cup {mp.tail} : heap[heap[n].prev].next = n
          /\ \A n \in listed : heap[n].hasData
          /\ DOMAIN mp.buckets = 1..mp.bucket_count
          /\ \A i \in 1..mp.bucket_count :
               LET c == ChainWithin(heap, mp.buckets[i], mp.element_count)
               IN /\ Range(c) \subseteq listed
                  /\ Distinct(c)
                  /\ \A j \in 1..Len(c) :
                       Hash(heap[c[j]].key) % mp.bucket_count = i - 1
          /\ \A n \in listed :
               LET i == Hash(heap[n].key) % mp.bucket_count
               IN n \in Range(ChainWithin(heap, mp.buckets[i + 1], mp.element_count))
  /\ \A n \in DOMAIN heap :
       Cardinality({m \in Live : n \in NodeSet(heap, maps[m])
                                   \cup {maps[m].head, maps[m].tail}}) = 1

\* a copy of a map that has grown holds a chain of two nodes or more
C17_Witness ==
  /\ last.op = "copy_construct" /\ last.m \in Live
  /\ LET mp == maps[last.m]
     IN /\ mp.bucket_count > INITIAL_BUCKET_COUNT
        /\ \E i \in 1..mp.bucket_count :
             Len(ChainWithin(heap, mp.buckets[i], mp.element_count)) >= 2

\* ----------------------------------------------------------------- C18
\* node n is the same node in h2 as in h1 but for its bucket-chain link
SameButChain(h1, h2, n) ==
  /\ n \in DOMAIN h2
  /\ h2[n] = [h1[n] EXCEPT !.hash_next = h2[n].hash_next]

\* C18: rehash changes only the bucket array, the bucket count and the
\* hash_next links: no node is created, destroyed or moved, and key, value,
\* prev and next of every node stay. So when an insert of a new key
\* triggers a rehash, the former entries keep their nodes, keys, values and
\* order, the new entry coming behind them, and a position held on a former
\* entry stands on the same entry, retreats to the same position and
\* advances to the same position as before (from the formerly last entry:
\* to the new entry).
C18_RehashKeepsList ==
  \A m \in Live :
    LET mp == maps[m]
        nodes == ListNodes(heap, mp)
        before == Entries(heap, mp)
        g == rehash(heap, mp, mp.bucket_count * 2)
    IN /\ DOMAIN g.heap = DOMAIN heap
       /\ \A n \in DOMAIN heap : SameButChain(heap, g.heap, n)
       /\ g.obj = [mp EXCEPT !.bucket_count = g.obj.bucket_count,
                             !.buckets = g.obj.buckets]
       /\ ListNodes(g.heap, g.obj) = nodes
       /\ OverLoad(mp.element_count, mp.bucket_count) =>
            \A k \in AllKeys \ KeysOf(before), v \in Vals :
              LET r == insert(heap, mp, k, v)
                  mps == [maps EXCEPT ![m] = r.obj]
              IN /\ r.flag /\ r.node \notin DOMAIN heap
                 /\ r.obj.bucket_count = mp.bucket_count * 2
                 /\ DOMAIN r.heap = DOMAIN heap \cup {r.node}
                 /\ \A i \in 1..Len(nodes) :
                      /\ r.heap[nodes[i]].key = heap[nodes[i]].key
                      /\ r.heap[nodes[i]].val = heap[nodes[i]].val
                      /\ r.heap[nodes[i]].prev = heap[nodes[i]].prev
                      /\ r.heap[nodes[i]].next =
                           IF i = Len(nodes) THEN r.node ELSE heap[nodes[i]].next
                 /\ ListNodes(r.heap, r.obj) = Append(nodes, r.node)
                 /\ Entries(r.heap, r.obj) = Append(before, <<k, v>>)
                 /\ \A i \in 1..Len(nodes) :
                      LET pos == MkIt(nodes[i], m)
                      IN /\ dec_prefix(r.heap, mps, pos) = dec_prefix(heap, maps, pos)
                         /\ inc_prefix(r.heap, mps, pos).it =
                              IF i = Len(nodes) THEN MkIt(r.node, m)
                              ELSE inc_prefix(heap, maps, pos).it
                         /\ find(r.heap, r.obj, m, heap[nodes[i]].key) = pos

\* the client holds a position on an entry of a map in which an insert
\* has then triggered a rehash
C18_Witness ==
  /\ last.op = "insert" /\ last.flag /\ last.m = "a"
  /\ it.map = "a" /\ it.node \in NodeSet(heap, maps["a"])
  /\ maps["a"].bucket_count = 2 * INITIAL_BUCKET_COUNT
  /\ ~OverLoad(size(maps["a"]) - 2, INITIAL_BUCKET_COUNT)
  /\ OverLoad(size(maps["a"]) - 1, INITIAL_BUCKET_COUNT)
  /\ order["a"][size(maps["a"])] \in Keys

\* ----------------------------------------------------------------- C19
\* what each operation does to the bucket count of a map, in any state:
\* insert and operator[] double it when they add a key to a map whose size
\* exceeds the load factor, and leave it otherwise; erase (failed or not),
\* clear, find, count and at leave it
BucketCountPerCall ==
  \A m \in Live :
    LET mp == maps[m]
        bc == mp.bucket_count
        present == KeysOf(Entries(heap, mp))
    IN /\ \A k \in AllKeys :
            LET grows == k \notin present /\ OverLoad(mp.element_count, bc)
                new == IF grows THEN 2 * bc ELSE bc
            IN /\ \A v \in Vals : insert(heap, mp, k, v).obj.bucket_count = new
               /\ index(heap, mp, k).obj.bucket_count = new
               /\ at(heap, mp, k).obj.bucket_count = bc
               /\ index_const(heap, mp, k).obj.bucket_count = bc
       /\ \A pos \in Positions \cup BadPositions(m) :
            erase(heap, mp, m, pos).obj.bucket_count = bc
       /\ clear(heap, mp).obj.bucket_count = bc

\* what a call of the client does to the bucket counts
BucketCountStep ==
  \A m \in MapIds :
    LET bc == maps[m].bucket_count
        bc2 == maps'[m].bucket_count
    IN /\ (maps[m].live /\ maps'[m].live) =>
            /\ bc2 >= bc
            /\ bc2 \in {bc, 2 * bc}
            /\ bc2 # bc =>
                 /\ last'.m = m
                 /\ OverLoad(size(maps'[m]) - 1, bc)
                 /\ \/ /\ last'.op \in {"insert", "index"} /\ last'.flag
                       /\ size(maps'[m]) = size(maps[m]) + 1
                    \/ last'.op = "assign" /\ ~last'.flag
       /\ (~maps[m].live /\ maps'[m].live) =>
            \/ last'.op = "construct" /\ bc2 = INITIAL_BUCKET_COUNT
            \/ last'.op = "copy_construct" /\ bc2 = maps["a"].bucket_count

\* C19: the bucket count of a map never decreases: a new map has 16
\* buckets, a copy-constructed one as many as its source; the count changes
\* only when a new key is inserted (by insert, by operator[], or by the
\* inserts operator= makes) into a map whose size exceeds the load factor,
\* and then doubles; erase, clear, find, count, at, an insert of a present
\* key and failed operations leave it.
C19_BucketCount == []BucketCountPerCall /\ [][BucketCountStep]_vars

\* operator[] has added a key and thereby doubled the initial bucket count
C19_Witness ==
  /\ last.op = "index" /\ last.flag /\ last.m = "a"
  /\ maps["a"].bucket_count = 2 * INITIAL_BUCKET_COUNT
  /\ OverLoad(size(maps["a"]) - 1, INITIAL_BUCKET_COUNT)
  /\ ~OverLoad(size(maps["a"]) - 2, INITIAL_BUCKET_COUNT)
  /\ order["a"][size(maps["a"])] \in Keys

\* ----------------------------------------------------------------- C20
\* C20: the position of a client that obtains positions from begin(),
\* end(), find() and insert() and moves them by ++ and -- is the default
\* one, an entry of a live map or its end(), and never the head sentinel;
\* from every such position a successful -- leads to an entry, from which
\* ++ succeeds and leads back, and a successful ++ leads to an entry or
\* end(), from which -- succeeds and leads back.
C20_NeverBeforeBegin ==
  /\ it \in Positions
  /\ it # DefaultIt => it.node # maps[it.map].head
  /\ \A pos \in Positions :
       LET d1 == dec_prefix(heap, maps, pos)
           d2 == dec_postfix(heap, maps, pos)
           i1 == inc_prefix(heap, maps, pos)
           i2 == inc_postfix(heap, maps, pos)
       IN /\ \A d \in {d1, d2} :
               d.exc = "none" =>
                 /\ d.it.node # maps[pos.map].head
                 /\ d.it.node \in NodeSet(heap, maps[pos.map])
                 /\ \A back \in {inc_prefix(heap, maps, d.it),
                                 inc_postfix(heap, maps, d.it)} :
                      back.exc = "none" /\ back.it = pos
          /\ \A i \in {i1, i2} :
               i.exc = "none" =>
                 /\ i.it \in Positions
                 /\ \A back \in {dec_prefix(heap, maps, i.it),
                                 dec_postfix(heap, maps, i.it)} :
                      back.exc = "none" /\ back.it = pos

\* the client has moved a position back to begin() of a map with two
\* entries or more
C20_Witness ==
  /\ last.op = "dec" /\ last.exc = "none"
  /\ it.map \in Live /\ size(maps[it.map]) >= 2
  /\ it = begin(heap, maps[it.map], it.map)
  /\ ops >= 2

=============================================================================
